---------------------------- MODULE Spec2Model ----------------------------
(***************************************************************************)
(* Model of aury/ai/model/tools.py: the JSON-Schema normaliser, the mapper *)
(* from ToolSpec lists to provider tool declarations, and the codec that   *)
(* carries an MCP server id inside a flat function name.                   *)
(*                                                                         *)
(* Python objects live in a heap (a sequence of dict objects addressed by  *)
(* their index), so that copying a dict and writing to a dict are          *)
(* different things.  Strings the codec looks into are sequences of        *)
(* one-character strings.                                                  *)
(***************************************************************************)
EXTENDS Integers, Sequences, FiniteSets, TLC

VARIABLES heap,     \* the Python heap: address -> dict object
          heap0,    \* the heap as the callers built it, before any call
          pc,       \* what the run exercises, and how far it has got
          schema,   \* the argument of _normalize_schema
          out1,     \* outcome of _normalize_schema(schema)
          out2,     \* outcome of _normalize_schema(out1)
          tools,    \* the list of ToolSpec shared by the callers of to_openai_tools
          tools0,   \* that list as it was built, before any call
          callers,  \* per caller of to_openai_tools: status, flag, loop index, out
          sent,     \* the (server_id, name) whose encoding the provider sends back
          raw,      \* the inbound call record
          decoded,  \* decode_maybe_mcp(raw name)
          call      \* normalize_tool_call(raw)

vars == <<heap, heap0, pc, schema, out1, out2, tools, tools0, callers,
          sent, raw, decoded, call>>
normVars == <<schema, out1, out2>>
toolVars == <<tools, tools0, callers>>
codecVars == <<sent, raw, decoded, call>>

(***************************************************************************)
(* Bounds of the model.                                                    *)
(***************************************************************************)
\* number of key/value entries of an input schema, nested entries included
MaxSize == 4
\* number of ToolSpec in the list passed to to_openai_tools
MaxTools == 2
\* length of a server id and of a tool name
MaxLen == 2
\* length of what follows the prefix in an inbound name that was not encoded
MaxBody == 5

(***************************************************************************)
(* Values.  A cell is what a dict slot or a variable holds: an atom (any   *)
(* value that is not a dict, named by a token) or a reference to a dict.   *)
(* A tree is a value written out in full: an atom or [dict |-> function].  *)
(***************************************************************************)
Atom(t) == [atom |-> t]
Ref(a) == [ref |-> a]
None == Atom("None")
Some(x) == [some |-> x]
IsAtom(v) == "atom" \in DOMAIN v

\* isinstance(x, dict) on a cell
IsDict(c) == "ref" \in DOMAIN c

\* tokens of the list values that occur: ["string","null"], [], ["a","b"]
ListAtoms == {"[string,null]", "[]", "[a,b]"}

\* hash(x) succeeds: lists and dicts are unhashable
Hashable(c) == ~IsDict(c) /\ c.atom \notin ListAtoms

valid_types == {"string", "number", "integer", "boolean", "object", "array", "null"}

(***************************************************************************)
(* The schemas a caller may build: every tree of at most MaxSize entries   *)
(* over the keys the normaliser looks at, grown one entry at a time.       *)
(***************************************************************************)
SchemaKeys == {"type", "enum", "required", "properties", "items", "additionalProperties"}
PropNames == {"p", "q"}
TypeAtoms == {"object", "array", "string", "file", "[string,null]"}
EmptyDict == [dict |-> <<>>]

\* the keys a caller may set in a dict: property names in the dict stored under
\* "properties" (ctx = "props"), schema keys elsewhere
KeysOf(ctx) == IF ctx = "props" THEN PropNames ELSE SchemaKeys

\* what the dict stored under key k of a dict of context ctx is
ChildCtx(ctx, k) == IF ctx = "schema" /\ k = "properties" THEN "props" ELSE "schema"

\* the values a caller may store in a new entry k
LeafVals(ctx, k) ==
    IF ctx = "props" THEN {Atom("true"), EmptyDict}
    ELSE CASE k = "type" -> {Atom(a) : a \in TypeAtoms}
           [] k = "enum" -> {Atom("[a,b]")}
           [] k = "required" -> {Atom("[]")}
           [] OTHER -> {Atom("true"), EmptyDict}

RECURSIVE Size(_), SizeOver(_, _)
\* the number of entries of a tree, nested entries included
Size(v) == IF IsAtom(v) THEN 0 ELSE SizeOver(v.dict, DOMAIN v.dict)
SizeOver(f, ks) ==
    IF ks = {} THEN 0
    ELSE LET k == CHOOSE x \in ks : TRUE IN 1 + Size(f[k]) + SizeOver(f, ks \ {k})

RECURSIVE Extend(_, _)
\* the dicts that are f with one more entry, in f itself or in a nested dict
Extend(f, ctx) ==
    UNION {{(k :> v) @@ f : v \in LeafVals(ctx, k)} : k \in KeysOf(ctx) \ DOMAIN f}
    \cup
    UNION {{[f EXCEPT ![k] = [dict |-> g]] : g \in Extend(f[k].dict, ChildCtx(ctx, k))} :
           k \in {x \in DOMAIN f : ~IsAtom(f[x])}}

(***************************************************************************)
(* The heap.                                                               *)
(***************************************************************************)
RECURSIVE Alloc(_, _), AllocFields(_, _, _, _)

\* a new dict object with the entries the outcome a collected
AllocDict(a) == [h |-> Append(a.h, a.r), r |-> Ref(Len(a.h) + 1)]

\* build the tree v in heap h, children first; r is the cell that denotes it
Alloc(h, v) ==
    IF IsAtom(v) THEN [h |-> h, r |-> v]
    ELSE AllocDict(AllocFields(h, v.dict, DOMAIN v.dict, <<>>))

\* the entry k is built as c; go on with the other entries
AllocNext(c, f, ks, acc, k) == AllocFields(c.h, f, ks \ {k}, (k :> c.r) @@ acc)

AllocFields(h, f, ks, acc) ==
    IF ks = {} THEN [h |-> h, r |-> acc]
    ELSE AllocNext(Alloc(h, f[CHOOSE x \in ks : TRUE]), f, ks, acc, CHOOSE x \in ks : TRUE)

RECURSIVE Val(_, _)
\* the tree a cell denotes in heap h
Val(h, c) ==
    IF IsAtom(c) THEN c
    ELSE [dict |-> [k \in DOMAIN h[c.ref] |-> Val(h, h[c.ref][k])]]

\* DictCopy gone wrong: `result = schema`, the same object under another name
DictAlias(h, a) == [h |-> h, r |-> a]

\* dict(d): a new dict object with the entries of the object at address a
DictCopy(h, a) == [h |-> Append(h, h[a]), r |-> Len(h) + 1]

\* d[k] = v on the object at address a
SetItem(h, a, k, v) == [h EXCEPT ![a] = (k :> v) @@ @]

\* a dict display or comprehension: a new object with the entries f
NewDict(h, f) == [h |-> Append(h, f), r |-> Ref(Len(h) + 1)]

\* d.get(k)
Get(h, a, k) == IF k \in DOMAIN h[a] THEN h[a][k] ELSE None

(***************************************************************************)
(* _normalize_schema.  An outcome is [h, r, exc]: the heap afterwards, the *)
(* returned cell, and whether the call raised instead of returning.        *)
(***************************************************************************)
Ok(h, r) == [h |-> h, r |-> r, exc |-> FALSE]
Raised(h) == [h |-> h, r |-> Atom("TypeError"), exc |-> TRUE]

\* run the next statement F on the result dict unless an exception is under way
Then(s, F(_, _)) == IF s.exc THEN s ELSE F(s.h, s.r.ref)

\* result[k] = <the value the outcome n returned>, unless n raised
Store(n, res, k) == IF n.exc THEN n ELSE Ok(SetItem(n.h, res, k, n.r), Ref(res))

\* ResolveType gone wrong: the default type is misspelt "str"
ResolveTypeTypo(h, res) ==
    IF "type" \notin DOMAIN h[res]
    THEN IF "properties" \in DOMAIN h[res] \/ "additionalProperties" \in DOMAIN h[res]
         THEN Ok(SetItem(h, res, "type", Atom("object")), Ref(res))
         ELSE IF "items" \in DOMAIN h[res]
         THEN Ok(SetItem(h, res, "type", Atom("array")), Ref(res))
         ELSE IF "enum" \in DOMAIN h[res]
         THEN Ok(h, Ref(res))
         ELSE Ok(SetItem(h, res, "type", Atom("str")), Ref(res))
    ELSE IF ~Hashable(h[res]["type"])
         THEN Raised(h)
         ELSE IF h[res]["type"].atom \notin valid_types
         THEN Ok(SetItem(h, res, "type", Atom("string")), Ref(res))
         ELSE Ok(h, Ref(res))

\* lines 57-70: make sure result["type"] exists and is valid
ResolveType(h, res) ==
    IF "type" \notin DOMAIN h[res]
    THEN IF "properties" \in DOMAIN h[res] \/ "additionalProperties" \in DOMAIN h[res]
         THEN Ok(SetItem(h, res, "type", Atom("object")), Ref(res))
         ELSE IF "items" \in DOMAIN h[res]
         THEN Ok(SetItem(h, res, "type", Atom("array")), Ref(res))
         ELSE IF "enum" \in DOMAIN h[res]
         THEN Ok(h, Ref(res))
         ELSE Ok(SetItem(h, res, "type", Atom("string")), Ref(res))
    ELSE IF ~Hashable(h[res]["type"])
         THEN Raised(h)                  \* `x not in valid_types` hashes x
         ELSE IF h[res]["type"].atom \notin valid_types
         THEN Ok(SetItem(h, res, "type", Atom("string")), Ref(res))
         ELSE Ok(h, Ref(res))

RECURSIVE normalize_schema(_, _), NormItems(_, _, _, _)

\* one more entry k of the comprehension, unless n raised
NextItem(n, a, ks, acc, k) ==
    IF n.exc THEN n ELSE NormItems(n.h, a, ks \ {k}, (k :> n.r) @@ acc)

\* lines 80-82: {k: _normalize_schema(v) for k, v in d.items()} for the dict at
\* a; the outcome returns the new dict
NormItems(h, a, ks, acc) ==
    IF ks = {} THEN Ok(NewDict(h, acc).h, NewDict(h, acc).r)
    ELSE NextItem(normalize_schema(h, h[a][CHOOSE x \in ks : TRUE]), a, ks, acc,
                  CHOOSE x \in ks : TRUE)

\* lines 74-75: if "properties" not in result: result["properties"] = {}
EnsureProperties(h, res) ==
    IF "properties" \notin DOMAIN h[res]
    THEN Ok(SetItem(NewDict(h, <<>>).h, res, "properties", NewDict(h, <<>>).r), Ref(res))
    ELSE Ok(h, Ref(res))

\* lines 76-77: if "required" not in result: result["required"] = []
EnsureRequired(h, res) ==
    IF "required" \notin DOMAIN h[res]
    THEN Ok(SetItem(h, res, "required", Atom("[]")), Ref(res))
    ELSE Ok(h, Ref(res))

\* NormalizeProperties gone wrong: the nested schemas are left as they are
NormalizePropertiesShallow(h, res) == Ok(h, Ref(res))

\* lines 79-82: the schemas under a dict of properties are normalised
NormalizeProperties(h, res) ==
    IF IsDict(Get(h, res, "properties"))
    THEN Store(NormItems(h, h[res]["properties"].ref,
                         DOMAIN h[h[res]["properties"].ref], <<>>),
               res, "properties")
    ELSE Ok(h, Ref(res))

\* lines 73-82: an object gets properties and required, its properties normalised
CompleteObject(h, res) ==
    IF Get(h, res, "type") = Atom("object")
    THEN Then(Then(EnsureProperties(h, res), EnsureRequired), NormalizeProperties)
    ELSE Ok(h, Ref(res))

\* lines 85-86: the items of an array are normalised
NormalizeArrayItems(h, res) ==
    IF Get(h, res, "type") = Atom("array") /\ "items" \in DOMAIN h[res]
    THEN Store(normalize_schema(h, h[res]["items"]), res, "items")
    ELSE Ok(h, Ref(res))

\* lines 89-90: a dict under additionalProperties is normalised
NormalizeAdditional(h, res) ==
    IF IsDict(Get(h, res, "additionalProperties"))
    THEN Store(normalize_schema(h, h[res]["additionalProperties"]), res,
               "additionalProperties")
    ELSE Ok(h, Ref(res))

\* line 51 onwards, on the copy
NormalizeCopy(c) ==
    Then(Then(Then(ResolveType(c.h, c.r),
                   CompleteObject), NormalizeArrayItems), NormalizeAdditional)

\* lines 39-92
normalize_schema(h, s) ==
    IF ~IsDict(s) THEN Ok(h, s) ELSE NormalizeCopy(DictCopy(h, s.ref))

(***************************************************************************)
(* A caller normalises a schema, then normalises the result again.         *)
(***************************************************************************)
NoOutcome == [r |-> None, exc |-> FALSE]
Outcome(n) == [r |-> n.r, exc |-> n.exc]
Idle == [st |-> "idle", nat |-> FALSE, idx |-> 0, out |-> <<>>]
Callers == {"c1", "c2"}

NoTools == tools = <<>> /\ tools0 = <<>> /\ callers = [c \in Callers |-> Idle]
NoCodec == sent = None /\ raw = <<>> /\ decoded = None /\ call = None
NoNorm == schema = None /\ out1 = NoOutcome /\ out2 = NoOutcome

InitNorm ==
    /\ \E s \in {Atom("true"), EmptyDict} :
          \E a \in {Alloc(<<>>, s)} : heap = a.h /\ schema = a.r
    /\ heap0 = heap
    /\ out1 = NoOutcome
    /\ out2 = NoOutcome
    /\ pc = "start"
    /\ NoTools /\ NoCodec

\* the caller adds one entry to the schema it is going to pass
Build ==
    /\ pc = "start"
    /\ IsDict(schema)
    /\ Size(Val(heap, schema)) < MaxSize
    /\ \E f \in Extend(Val(heap, schema).dict, "schema") :
          \E a \in {Alloc(<<>>, [dict |-> f])} :
             heap' = a.h /\ schema' = a.r /\ heap0' = a.h
    /\ UNCHANGED <<out1, out2, pc, toolVars, codecVars>>

\* out1 = _normalize_schema(schema)
Normalize ==
    /\ pc = "start"
    /\ \E n \in {normalize_schema(heap, schema)} :
           /\ heap' = n.h
           /\ out1' = Outcome(n)
           /\ pc' = IF n.exc THEN "raised" ELSE "once"
    /\ UNCHANGED <<heap0, schema, out2, toolVars, codecVars>>

\* out2 = _normalize_schema(out1)
Renormalize ==
    /\ pc = "once"
    /\ \E n \in {normalize_schema(heap, out1.r)} :
           /\ heap' = n.h
           /\ out2' = Outcome(n)
           /\ pc' = IF n.exc THEN "raised" ELSE "twice"
    /\ UNCHANGED <<heap0, schema, out1, toolVars, codecVars>>

NextNorm == Build \/ Normalize \/ Renormalize

(***************************************************************************)
(* Strings the code builds or takes apart are sequences of characters.     *)
(***************************************************************************)
McpPrefix == <<"m", "c", "p", ":", ":">>
Colon2 == <<":", ":">>

\* line 109: f"mcp::{server_id}::{name}"
Encode(server_id, name) == McpPrefix \o server_id \o Colon2 \o name

\* line 110: (description or "") + f" [MCP server={server_id}]"
McpDescription(description, server_id) ==
    (IF description = None \/ description.some = <<>> THEN <<>> ELSE description.some)
        \o <<" [MCP server=">> \o server_id \o <<"]">>

(***************************************************************************)
(* The ToolSpec values a caller may put in its list.  A payload is None or *)
(* a record; a ToolSpec need not carry the payload of its kind, and may    *)
(* carry another one (lines 30-35 validate neither).                       *)
(***************************************************************************)
FunctionPayloads ==
    <<[name |-> Encode(<<"a">>, <<":", "b">>), description |-> None,
       parameters |-> [dict |-> ("properties" :> [dict |-> ("p" :> EmptyDict)])]],
      [name |-> <<"f">>, description |-> Some(<<"d">>),
       parameters |-> [dict |-> ("properties" :>
                          [dict |-> ("p" :> [dict |-> ("type" :> Atom("[string,null]"))])])]]>>

McpPayloads ==
    <<[server_id |-> <<"a", ":">>, name |-> <<"b">>, description |-> None,
       input_schema |-> EmptyDict],
      [server_id |-> <<"a">>, name |-> <<":", "b">>, description |-> Some(<<"d">>),
       input_schema |-> [dict |-> ("items" :> EmptyDict)]]>>

BuiltinPayloads ==
    <<[type |-> "web_search", config |-> [dict |-> ("k" :> Atom("v"))]],
      [type |-> "web_search", config |-> [dict |-> ("type" :> Atom("other") @@ "k" :> Atom("v"))]]>>

ToolKind == {"function", "mcp", "builtin"}

ToolSpec(kind, function, mcp, builtin) ==
    [kind |-> kind, function |-> function, mcp |-> mcp, builtin |-> builtin]

\* per kind: no payload at all, only a payload of another kind, the payload of
\* the kind, the payload of the kind together with another one
ToolUniverse ==
    { ToolSpec("function", None, None, None),
      ToolSpec("function", None, McpPayloads[1], None),
      ToolSpec("function", FunctionPayloads[1], None, None),
      ToolSpec("function", FunctionPayloads[1], McpPayloads[1], None),
      ToolSpec("function", FunctionPayloads[2], None, None),
      ToolSpec("mcp", None, None, None),
      ToolSpec("mcp", None, None, BuiltinPayloads[1]),
      ToolSpec("mcp", None, McpPayloads[1], None),
      ToolSpec("mcp", None, McpPayloads[1], BuiltinPayloads[1]),
      ToolSpec("mcp", None, McpPayloads[2], None),
      ToolSpec("builtin", None, None, None),
      ToolSpec("builtin", FunctionPayloads[1], None, None),
      ToolSpec("builtin", None, None, BuiltinPayloads[1]),
      ToolSpec("builtin", FunctionPayloads[1], None, BuiltinPayloads[1]),
      ToolSpec("builtin", None, None, BuiltinPayloads[2]) }

\* the payload p with its field k replaced by the cell a.r
WithCell(a, p, k) == [h |-> a.h, r |-> [p EXCEPT ![k] = a.r]]

\* build in heap h the dict the payload p holds under field k
AllocField(h, p, k) ==
    IF p = None THEN [h |-> h, r |-> None] ELSE WithCell(Alloc(h, p[k]), p, k)

\* build the ToolSpec t in heap h
AllocBuiltin(m, t, f) ==
    \* f and m are the function and mcp payloads as built
    [h |-> AllocField(m.h, t.builtin, "config").h,
     r |-> ToolSpec(t.kind, f.r, m.r, AllocField(m.h, t.builtin, "config").r)]
AllocMcp(f, t) == AllocBuiltin(AllocField(f.h, t.mcp, "input_schema"), t, f)
AllocTool(h, t) == AllocMcp(AllocField(h, t.function, "parameters"), t)

(***************************************************************************)
(* to_openai_tools.                                                        *)
(***************************************************************************)
\* Update gone wrong: the keys the dict already has are kept
UpdateKeepsExisting(h, a, b) == [h EXCEPT ![a] = @ @@ h[b]]

\* d.update(e) for the dicts at addresses a and b
Update(h, a, b) == [h EXCEPT ![a] = h[b] @@ @]

\* x or ""
OrEmpty(x) == IF x = None THEN <<>> ELSE x.some

\* out.append(decl) once the schema is normalised with outcome n; an exception
\* leaves the loop
Emit(n, out, decl) ==
    [h |-> n.h, exc |-> n.exc, out |-> IF n.exc THEN out ELSE Append(out, decl)]

\* lines 99-103
FunctionDecl(function, n) ==
    [type |-> "function",
     function |-> [name |-> function.name,
                   description |-> OrEmpty(function.description),
                   parameters |-> n.r]]

\* lines 105-113
McpDecl(mcp, n, supports_mcp_native) ==
    IF supports_mcp_native
    THEN [type |-> "mcp", server |-> mcp.server_id, name |-> mcp.name, parameters |-> n.r]
    ELSE [type |-> "function",
          function |-> [name |-> Encode(mcp.server_id, mcp.name),
                        description |-> McpDescription(mcp.description, mcp.server_id),
                        parameters |-> n.r]]

\* line 116: item.update(t.builtin.config)
UpdateItem(item, config) ==
    [h |-> Update(item.h, item.r.ref, config.ref), r |-> item.r, exc |-> FALSE]

\* lines 115-116: the declaration of a builtin tool
BuiltinItem(h, builtin) ==
    UpdateItem(NewDict(h, "type" :> Atom(builtin.type)), builtin.config)

\* the parameters are normalised, then the declaration is appended
EmitFunction(n, out, function) == Emit(n, out, FunctionDecl(function, n))
EmitMcp(n, out, mcp, supports_mcp_native) == Emit(n, out, McpDecl(mcp, n, supports_mcp_native))
EmitBuiltin(item, out) == Emit(item, out, item.r)

\* lines 98-117: one iteration of the loop, for the tool t
ToolStep(h, out, t, supports_mcp_native) ==
    IF t.kind = "function" /\ t.function # None
    THEN EmitFunction(normalize_schema(h, t.function.parameters), out, t.function)
    ELSE IF t.kind = "mcp" /\ t.mcp # None
    THEN EmitMcp(normalize_schema(h, t.mcp.input_schema), out, t.mcp, supports_mcp_native)
    ELSE IF t.kind = "builtin" /\ t.builtin # None
    THEN EmitBuiltin(BuiltinItem(h, t.builtin), out)
    ELSE [h |-> h, exc |-> FALSE, out |-> out]

InitTools ==
    /\ heap = <<>>
    /\ heap0 = <<>>
    /\ pc = "tools"
    /\ NoTools /\ NoNorm /\ NoCodec

\* a caller appends a ToolSpec to the list, before anyone maps it
AddTool ==
    /\ pc = "tools"
    /\ \A c \in Callers : callers[c].st = "idle"
    /\ Len(tools) < MaxTools
    /\ \E t \in ToolUniverse :
          \E a \in {AllocTool(heap, t)} :
              /\ heap' = a.h
              /\ heap0' = a.h
              /\ tools' = Append(tools, a.r)
              /\ tools0' = tools'
    /\ UNCHANGED <<pc, callers, normVars, codecVars>>

\* line 96: caller c enters to_openai_tools(tools, supports_mcp_native = n)
CallMapper(c) ==
    /\ pc = "tools"
    /\ callers[c].st = "idle"
    /\ \E n \in BOOLEAN :
          callers' = [callers EXCEPT ![c] =
                         [st |-> IF tools = <<>> THEN "done" ELSE "running",
                          nat |-> n, idx |-> 1, out |-> <<>>]]
    /\ UNCHANGED <<heap, heap0, pc, tools, tools0, normVars, codecVars>>

\* lines 97-118: caller c runs one iteration of the loop; after the last one
\* it returns out, and an exception ends the call
MapperStep(c) ==
    /\ pc = "tools"
    /\ callers[c].st = "running"
    /\ \E s \in {ToolStep(heap, callers[c].out, tools[callers[c].idx], callers[c].nat)} :
           /\ heap' = s.h
           /\ callers' = [callers EXCEPT ![c] =
                             [st  |-> IF s.exc THEN "raised"
                                      ELSE IF @.idx = Len(tools) THEN "done" ELSE "running",
                              nat |-> @.nat,
                              idx |-> IF s.exc THEN @.idx ELSE @.idx + 1,
                              out |-> s.out]]
    /\ UNCHANGED <<heap0, pc, tools, tools0, normVars, codecVars>>

NextTools == AddTool \/ (\E c \in Callers : CallMapper(c) \/ MapperStep(c))

(***************************************************************************)
(* The codec: re.compile(r"^mcp::(.+?)::(.+)$").match(name).               *)
(***************************************************************************)
\* `.` matches any character but a newline
Dot(ch) == ch # "\n"

\* `$` after the character at position e: at the end of the string, or just
\* before a newline that ends it
Dollar(name, e) ==
    e = Len(name) \/ (e = Len(name) - 1 /\ name[Len(name)] = "\n")

\* the ends e of a run of `.+` from position j that lets `$` match
Group2Ends(name, j) ==
    {e \in j .. Len(name) : (\A k \in j .. e : Dot(name[k])) /\ Dollar(name, e)}

\* the pattern matches with a first group of i characters
MatchWith(name, i) ==
    /\ Len(name) >= Len(McpPrefix) + i + 3
    /\ SubSeq(name, 1, Len(McpPrefix)) = McpPrefix
    /\ \A k \in 6 .. (5 + i) : Dot(name[k])
    /\ SubSeq(name, 6 + i, 7 + i) = Colon2
    /\ Group2Ends(name, 8 + i) # {}

\* which i the lazy (.+?) settles on: the shortest that lets the rest match
FirstGroupLen(name) ==
    CHOOSE i \in 1 .. Len(name) :
        MatchWith(name, i) /\ \A j \in 1 .. (i - 1) : ~MatchWith(name, j)

\* line 120: _mcp_pat.match(name): None, or the two groups
\* where the greedy (.+) ends when the first group has i characters
Group2End(name, i) ==
    CHOOSE x \in Group2Ends(name, 8 + i) : \A y \in Group2Ends(name, 8 + i) : y <= x

\* the two groups when the first one has i characters
Groups(name, i) == <<SubSeq(name, 6, 5 + i), SubSeq(name, 8 + i, Group2End(name, i))>>

\* line 120: _mcp_pat.match(name): None, or the two groups
mcp_pat(name) ==
    IF \E i \in 1 .. Len(name) : MatchWith(name, i)
    THEN Some(Groups(name, FirstGroupLen(name)))
    ELSE None

\* lines 122-124
GroupsOrName(m, name) ==
    IF m # None THEN [server |-> Some(m.some[1]), tool |-> m.some[2]]
    ELSE [server |-> None, tool |-> name]

decode_maybe_mcp(name) == GroupsOrName(mcp_pat(name), name)

\* d.get(k, default) on a record of the provider
RawGet(d, k, default) == IF k \in DOMAIN d THEN d[k] ELSE default

\* lines 127-135
\* x or "" for an id
IdOrEmpty(id) == IF id = "None" \/ id = "" THEN "" ELSE id

\* ToolCall gone wrong: the name is never stripped of its encoding
ToolCallKeepsName(d, r) ==
    [id |-> IdOrEmpty(RawGet(r, "id", "None")),
     name |-> RawGet(r, "name", <<>>),
     arguments_json |-> RawGet(r, "arguments", "{}"),
     mcp_server_id |-> d.server]

\* lines 130-135, with d the pair (server, tool) of line 129
ToolCall(d, r) ==
    [id |-> IdOrEmpty(RawGet(r, "id", "None")),
     name |-> IF d.server # None /\ d.server.some # <<>> THEN d.tool
              ELSE RawGet(r, "name", <<>>),
     arguments_json |-> RawGet(r, "arguments", "{}"),
     mcp_server_id |-> d.server]

\* lines 127-135
normalize_tool_call(r) == ToolCall(decode_maybe_mcp(RawGet(r, "name", <<>>)), r)

(***************************************************************************)
(* The provider sends a call record back: its name is the encoding of an   *)
(* MCP tool that to_openai_tools emitted, or any other string.             *)
(***************************************************************************)
Chars == {"a", ":", "\n"}
StrsUpTo(n) == UNION {[1 .. k -> Chars] : k \in 0 .. n}

\* how a name that was not encoded may start
Prefixes == {<<>>, McpPrefix, <<"m", "c", "p", ":">>, <<"x">> \o McpPrefix}

\* the record with the fields that are present
RawRecord(id, name, arguments) ==
    LET f(k, x) == IF x = None THEN <<>> ELSE k :> x.some
    IN  f("id", id) @@ f("name", name) @@ f("arguments", arguments)

InitCodec ==
    /\ heap = <<>>
    /\ heap0 = <<>>
    /\ pc = "codec"
    /\ sent \in {None} \cup
                {Some([server_id |-> s, name |-> n]) : s \in StrsUpTo(MaxLen), n \in StrsUpTo(MaxLen)}
    /\ raw = <<>> /\ decoded = None /\ call = None
    /\ NoTools /\ NoNorm

\* the provider builds the call record
ProviderCall ==
    /\ pc = "codec"
    /\ \E id \in {None, Some(""), Some("c1")}, arguments \in {None, Some("{q:1}")} :
          \/ /\ sent # None
             /\ raw' = RawRecord(id, Some(Encode(sent.some.server_id, sent.some.name)), arguments)
          \/ /\ sent = None
             /\ \E name \in {None} \cup {Some(p \o b) : p \in Prefixes, b \in StrsUpTo(MaxBody)} :
                   raw' = RawRecord(id, name, arguments)
    /\ pc' = "inbound"
    /\ UNCHANGED <<heap, heap0, sent, decoded, call, normVars, toolVars>>

\* the record goes through normalize_tool_call (and its name through
\* decode_maybe_mcp)
NormalizeCall ==
    /\ pc = "inbound"
    /\ decoded' = decode_maybe_mcp(RawGet(raw, "name", <<>>))
    /\ call' = normalize_tool_call(raw)
    /\ pc' = "decoded"
    /\ UNCHANGED <<heap, heap0, sent, raw, normVars, toolVars>>

NextCodec == ProviderCall \/ NormalizeCall

(***************************************************************************)
(* The specification: a run exercises the normaliser, the mapper or the    *)
(* codec.                                                                  *)
(***************************************************************************)
Init == InitNorm \/ InitTools \/ InitCodec

Next == NextNorm \/ NextTools \/ NextCodec

Spec == Init /\ [][Next]_vars

(***************************************************************************)
(* Properties of the normaliser.                                           *)
(***************************************************************************)
Returned == pc \in {"once", "twice"}

\* the tree the first call returned
Out1 == Val(heap, out1.r)

\* C1: _normalize_schema is idempotent: normalising what _normalize_schema
\* returned returns an equal schema.
C1_Idempotent == pc = "twice" => Val(heap, out2.r) = Out1

\* a nested schema that the first call had to change was normalised twice
C1_Witness ==
    /\ pc = "twice"
    /\ Len(heap0) >= 2
    /\ Out1 # Val(heap0, schema)

\* C2: _normalize_schema is total: it never raises, whatever is stored under
\* type, properties, items and additionalProperties.
C2_NeverRaises == pc # "raised"

RECURSIVE Reached(_)
\* the schema mappings of a tree that the claims speak of: the tree itself and
\* those under the properties of an object, the items of an array, and
\* additionalProperties
Reached(v) ==
    IF IsAtom(v) THEN {}
    ELSE {v.dict}
         \cup (IF "type" \in DOMAIN v.dict /\ v.dict["type"] = Atom("object")
                  /\ "properties" \in DOMAIN v.dict /\ ~IsAtom(v.dict["properties"])
               THEN UNION {Reached(v.dict["properties"].dict[k]) :
                              k \in DOMAIN v.dict["properties"].dict}
               ELSE {})
         \cup (IF "type" \in DOMAIN v.dict /\ v.dict["type"] = Atom("array")
                  /\ "items" \in DOMAIN v.dict
               THEN Reached(v.dict["items"]) ELSE {})
         \cup (IF "additionalProperties" \in DOMAIN v.dict
               THEN Reached(v.dict["additionalProperties"]) ELSE {})

ObjectComplete(f) ==
    ("type" \in DOMAIN f /\ f["type"] = Atom("object"))
        => {"properties", "required"} \subseteq DOMAIN f

\* a schema that only lists its values: enum, and nothing that implies a type
EnumOnly(f) ==
    "enum" \in DOMAIN f /\ DOMAIN f \cap {"properties", "additionalProperties", "items"} = {}

HasPayload(t) == t[t.kind] # None

\* exactly one payload, the one of the tool's kind
Consistent(t) == HasPayload(t) /\ \A k \in ToolKind \ {t.kind} : t[k] = None

\* the tools with a payload among the first i
ValidUpTo(i) == {j \in 1 .. i : HasPayload(tools[j])}

\* the declaration d is the one lines 98-117 prescribe for the tool t
DeclarationOf(d, t, supports_mcp_native) ==
    CASE t.kind = "function" ->
            /\ ~IsDict(d) /\ d.type = "function"
            /\ d.function.name = t.function.name
      [] t.kind = "mcp" /\ supports_mcp_native ->
            /\ ~IsDict(d) /\ d.type = "mcp"
            /\ d.server = t.mcp.server_id /\ d.name = t.mcp.name
      [] t.kind = "mcp" /\ ~supports_mcp_native ->
            /\ ~IsDict(d) /\ d.type = "function"
            /\ d.function.name = Encode(t.mcp.server_id, t.mcp.name)
      [] OTHER -> IsDict(d)

\* C4: to_openai_tools emits one declaration for each tool that has the payload
\* of its kind, none for the others, in the order of the input.
C4_OnePerValidTool ==
    \A c \in Callers :
        callers[c].st \in {"done", "raised"} =>
            /\ Len(callers[c].out) = Cardinality(ValidUpTo(Len(tools)))
            /\ \A i \in ValidUpTo(Len(tools)) :
                  DeclarationOf(callers[c].out[Cardinality(ValidUpTo(i))], tools[i],
                                callers[c].nat)

\* what holds of the calls that return
OnePerValidToolWhenReturned ==
    \A c \in Callers :
        callers[c].st = "done" =>
            /\ Len(callers[c].out) = Cardinality(ValidUpTo(Len(tools)))
            /\ \A i \in ValidUpTo(Len(tools)) :
                  DeclarationOf(callers[c].out[Cardinality(ValidUpTo(i))], tools[i],
                                callers[c].nat)

\* C5: a ToolSpec that does not have exactly one payload, the one of its kind,
\* produces no entry: a list of such tools maps to the empty list.
C5_InconsistentDropped ==
    \A c \in Callers :
        (callers[c].st = "done" /\ \A i \in 1 .. Len(tools) : ~Consistent(tools[i]))
            => callers[c].out = <<>>

\* the builtin tools that caller c has already mapped
MappedBuiltins(c) ==
    {i \in 1 .. Len(tools) :
        i < callers[c].idx /\ tools[i].kind = "builtin" /\ HasPayload(tools[i])}

\* the declaration caller c emitted for the tool i, and the tool's config
ItemOf(c, i) == heap[callers[c].out[Cardinality(ValidUpTo(i))].ref]
ConfigOf(i) == heap[tools[i].builtin.config.ref]

CarriesConfig(c, i) ==
    \A k \in DOMAIN ConfigOf(i) : k \in DOMAIN ItemOf(c, i) /\ ItemOf(c, i)[k] = ConfigOf(i)[k]

\* C6 as claimed: the declaration of a builtin tool has the builtin's type and
\* every key of config with config's value.
C6_TypeAndConfig ==
    \A c \in Callers : \A i \in MappedBuiltins(c) :
        ItemOf(c, i)["type"] = Atom(tools[i].builtin.type) /\ CarriesConfig(c, i)

\* C6 as amended: the declaration of a builtin tool has every key of config with
\* config's value, and the builtin's type unless config has a key "type".
C6_ConfigOnTop ==
    \A c \in Callers : \A i \in MappedBuiltins(c) :
        /\ CarriesConfig(c, i)
        /\ "type" \notin DOMAIN ConfigOf(i) => ItemOf(c, i)["type"] = Atom(tools[i].builtin.type)

\* a caller has mapped a builtin whose config has a type, and one whose config
\* has none
C6_Witness ==
    \E c \in Callers :
        /\ \E i \in MappedBuiltins(c) : "type" \in DOMAIN ConfigOf(i)
        /\ \E i \in MappedBuiltins(c) : "type" \notin DOMAIN ConfigOf(i) /\ ConfigOf(i) # <<>>

\* C8: neither _normalize_schema nor to_openai_tools changes its input: the
\* dicts the callers built and the list of tools stay as they were built,
\* whatever calls were made and however they interleave.
C8_InputsUntouched ==
    /\ Len(heap) >= Len(heap0)
    /\ SubSeq(heap, 1, Len(heap0)) = heap0
    /\ tools = tools0

\* two callers have mapped the same list, and the normaliser wrote to its copies
C8_Witness ==
    /\ \A c \in Callers : callers[c].st = "done" /\ Len(callers[c].out) = MaxTools
    /\ \E c \in Callers : \E j \in 1 .. MaxTools :
          /\ ~IsDict(callers[c].out[j])
          /\ \E i \in 1 .. Len(tools) :
                /\ tools[i].kind = "function" /\ HasPayload(tools[i])
                /\ Val(heap, callers[c].out[j].function.parameters)
                      # Val(heap0, tools[i].function.parameters)
                /\ callers[c].out[j].function.name = tools[i].function.name

\* the names of the function declarations in out
FunctionNames(out) == [j \in {x \in 1 .. Len(out) : ~IsDict(out[x]) /\ out[x].type = "function"}
                          |-> out[j].function.name]

\* function names are unique in the list, MCP names are unique in their server
InputDistinct ==
    \A i, j \in ValidUpTo(Len(tools)) :
        (i # j /\ tools[i].kind = tools[j].kind) =>
            CASE tools[i].kind = "function" -> tools[i].function.name # tools[j].function.name
              [] tools[i].kind = "mcp" ->
                    <<tools[i].mcp.server_id, tools[i].mcp.name>>
                        # <<tools[j].mcp.server_id, tools[j].mcp.name>>
              [] OTHER -> TRUE

\* C10: without native MCP support the function names that to_openai_tools
\* emits for distinct tools are pairwise distinct.
C10_DistinctNames ==
    \A c \in Callers :
        (callers[c].st = "done" /\ ~callers[c].nat /\ InputDistinct) =>
            \A i, j \in DOMAIN FunctionNames(callers[c].out) :
                i # j => FunctionNames(callers[c].out)[i] # FunctionNames(callers[c].out)[j]

(***************************************************************************)
(* Properties of the codec.                                                *)
(***************************************************************************)
HasColon2(s) == \E k \in 1 .. (Len(s) - 1) : SubSeq(s, k, k + 1) = Colon2

\* a string a tool can be called: not empty, and on one line
Ordinary(s) == s # <<>> /\ \A k \in 1 .. Len(s) : s[k] # "\n"

\* C3: a server id and a name without "::" survive encoding and decoding
\* (stated for ordinary server ids and names).
C3_RoundTrip ==
    (pc = "decoded" /\ sent # None
        /\ Ordinary(sent.some.server_id) /\ Ordinary(sent.some.name)
        /\ ~HasColon2(sent.some.server_id) /\ ~HasColon2(sent.some.name))
      => decoded = [server |-> Some(sent.some.server_id), tool |-> sent.some.name]

\* no empty part, no newline, and no colon next to the delimiter
Unambiguous(server_id, name) ==
    /\ Ordinary(server_id) /\ Ordinary(name)
    /\ ~HasColon2(server_id) /\ ~HasColon2(name)
    /\ server_id[Len(server_id)] # ":"

\* what holds of the round trip
RoundTripWhenUnambiguous ==
    (pc = "decoded" /\ sent # None /\ Unambiguous(sent.some.server_id, sent.some.name))
      => decoded = [server |-> Some(sent.some.server_id), tool |-> sent.some.name]

\* the name in the record, "" when there is none
RawName == IF "name" \in DOMAIN raw THEN raw["name"] ELSE <<>>

\* the ways to read name as mcp::<server_id>::<tool_name>, both parts non-empty
\* and on one line (a newline that ends the name does not count)
Readings(name) ==
    {<<s, t>> \in {<<SubSeq(name, 6, a), SubSeq(name, a + 3, b)>> :
                      a \in 6 .. Len(name), b \in 1 .. Len(name)} :
        /\ s # <<>> /\ t # <<>>
        /\ \A k \in 1 .. Len(s) : s[k] # "\n"
        /\ \A k \in 1 .. Len(t) : t[k] # "\n"
        /\ Encode(s, t) \in {name, SubSeq(name, 1, Len(name) - 1)}
        /\ (Encode(s, t) # name => name[Len(name)] = "\n")}

\* C7: normalize_tool_call decodes a name that reads as mcp::<server_id>::<name>
\* (the shortest server id wins) and passes any other name through; a missing
\* id becomes "" and missing arguments become "{}".
C7_ToolCall ==
    pc = "decoded" =>
        /\ Readings(RawName) # {} =>
              /\ call.mcp_server_id # None
              /\ <<call.mcp_server_id.some, call.name>> \in Readings(RawName)
              /\ \A r \in Readings(RawName) : Len(call.mcp_server_id.some) <= Len(r[1])
        /\ Readings(RawName) = {} => call.mcp_server_id = None /\ call.name = RawName
        /\ call.id = (IF "id" \in DOMAIN raw THEN raw["id"] ELSE "")
        /\ call.arguments_json = (IF "arguments" \in DOMAIN raw THEN raw["arguments"] ELSE "{}")

\* an encoded name with two readings came in without id and arguments
C7_Witness ==
    /\ pc = "decoded"
    /\ Cardinality(Readings(RawName)) >= 2
    /\ DOMAIN raw = {"name"}
    /\ call.name # RawName

=============================================================================
